---- MODULE Spec2Model ----
(***************************************************************************)
(* The telemetry session core of the TelemetryFlow Python SDK:              *)
(* TelemetryCommandHandler (infrastructure/handlers.py) and the facade      *)
(* TelemetryFlowClient (client.py) that drives it.                          *)
(*                                                                          *)
(* Every handler is a sequence of steps of the calling thread; a step ends  *)
(* where the code acquires a lock, calls the external pipeline, or reads or *)
(* writes a field that another thread may touch without a lock.  Under Spec *)
(* one thread makes the calls, so each call runs from entry to return       *)
(* without interference; under SpecConc two threads interleave.             *)
(***************************************************************************)
EXTENDS Integers, Sequences, FiniteSets, TLC

\* ------------------------------------------------------------------ bounds
\* calls one caller makes under Spec
MaxCalls == 3
\* calls the two callers make together under SpecConc
MaxCallsConc == 3
\* calls the two callers make together under SpecSpanRace
MaxCallsSpanRace == 4
\* distinct metric names a caller uses
MaxNames == 1
\* longest EmitBatchLogsCommand.logs
MaxBatch == 2
\* calls two callers make between them when they race on the metric handlers
MaxCallsMetricRace == 3
\* calls one caller makes on the client around and inside a span scope
MaxCallsScope == 4
MaxCallsHold == 3
MaxCallsLive == 3
\* largest absolute value of a numeric configuration field
MaxVal == 1
\* characters of a key after its prefix
MaxTail == 1
\* register calls on a bus
MaxRegs == 3
\* increment_counter calls in a row in a scripted run
MaxRepeat == 5

Threads == {"t1", "t2"}
SeqThreads == {"t1"}
NoThread == "none"
Names == 1..MaxNames

\* span ids: 0 is the empty string, 1.. are the uuids handed out, Unknown is a
\* string no start_span ever returned
EmptyId == 0
Unknown == -1

NoConfig == [present |-> FALSE, enable_traces |-> FALSE, enable_metrics |-> FALSE]
Configs == {[present |-> TRUE, enable_traces |-> tr, enable_metrics |-> me] :
            tr \in BOOLEAN, me \in BOOLEAN}

VARIABLES
  \* how the session is driven, fixed at construction
  mode,                 \* "facade": through TelemetryFlowClient; "core": handler.handle(cmd)
  budget,               \* calls the callers may still make
  \* TelemetryFlowClient
  client_config, client_initialized, client_lock,
  \* TelemetryCommandHandler
  config, initialized, init_lock,
  tracer_provider, meter_provider, tracer, meter,
  exporter_factory, span_processor, metric_reader,
  active_spans, spans_lock,
  counters, histograms, gauges, instruments_lock,
  start_time, metrics_sent, logs_sent, spans_sent,
  \* the external pipeline objects, as the calls made on them
  tproviders,           \* TracerProvider objects: force_flush and shutdown calls received
  mproviders,           \* MeterProvider objects
  spans,                \* Span objects created by Tracer.start_span
  instruments,          \* instruments created by Meter.create_*
  nuuid,                \* uuid4 values drawn so far
  clock,                \* datetime.now(UTC), a strictly increasing reading
  \* the calling threads
  fr,                   \* the call each thread is in, its position and locals
  ret,                  \* the last call each thread completed, with its outcome
  scope,                \* the `with client.span(...)` block each thread is inside
  \* history
  setups,               \* pipeline setups completed since the last shutdown ran
  closes,               \* shutdowns that ran since the last setup completed
  ended,                \* span ids whose span end_span closed
  issued,               \* values start_span returned to a caller
  nesting,              \* <<held, acquired>>: a lock acquired while another was held
  due,                  \* the counter updates the completed calls were to make
  \* a scripted run of one caller
  script,               \* the calls the caller is to make, in order
  pos,                  \* how many of them it has made
  \* domain/config.py
  tc,                   \* the TelemetryConfig object the application holds
  tc_error,             \* the message of the ConfigError the last construction raised
  tc_args,              \* the arguments of the last construction
  \* domain/credentials.py, builder.py
  cred,                 \* the Credentials object the application holds
  cred_args,            \* the arguments of the last Credentials.create
  bld,                  \* the fields of the TelemetryFlowBuilder
  raised,               \* the exception the last create or build raised
  \* application/commands.py, application/queries.py
  bus,                  \* the _handlers dict of a CommandBus or a QueryBus
  regs,                 \* history: the register calls made, in order
  dispatched            \* the last dispatch: the handler calls it made and its outcome

clientVars == <<client_config, client_initialized, client_lock>>
lifeVars == <<config, initialized, init_lock, tracer_provider, meter_provider, tracer,
              meter, exporter_factory, span_processor, metric_reader, start_time>>
spanVars == <<active_spans, spans_lock>>
cacheVars == <<counters, histograms, gauges, instruments_lock>>
sentVars == <<metrics_sent, logs_sent, spans_sent>>
coreVars == <<lifeVars, spanVars, cacheVars, sentVars>>
extVars == <<tproviders, mproviders, spans, instruments, nuuid, clock>>
histVars == <<setups, closes, ended, issued, nesting, due>>
threadVars == <<fr, ret, scope>>
tcVars == <<tc, tc_error, tc_args>>
objVars == <<cred, cred_args, bld, raised>>
busVars == <<bus, regs, dispatched>>
auxVars == <<script, pos, tcVars, objVars, busVars>>
vars == <<mode, budget, clientVars, coreVars, extVars, threadVars, histVars, auxVars>>
\* everything but the TelemetryConfig object
sessionVars == <<mode, budget, clientVars, coreVars, extVars, threadVars, histVars, script, pos,
                 objVars, busVars>>
\* everything but the configuration, the credentials and the builder
runVars == <<mode, budget, clientVars, coreVars, extVars, threadVars, histVars, script, pos,
             busVars>>
\* everything but the bus
offBusVars == <<mode, budget, clientVars, coreVars, extVars, threadVars, histVars, script, pos,
                tcVars, objVars>>

\* ------------------------------------------------------------------ frames
\* what _handle_initialize assigns, as TelemetryCommandHandler.__init__ leaves it
NoSetup == <<NoConfig, NoConfig, 0, 0, 0, 0, 0, 0, 0>>

IdleFrame ==
  [pc |-> "idle", op |-> "none", via |-> "core", cm |-> "none",
   name |-> 0, kind |-> "none", sid |-> EmptyId, err |-> FALSE, cfg |-> NoConfig,
   span |-> 0, inst |-> 0, errs |-> 0, failed |-> {}, mshut |-> FALSE, ran |-> FALSE,
   reg |-> 0, n |-> 0, exc |-> "none", val |-> 0, outer |-> "none",
   both |-> FALSE, cleared |-> 0, prop |-> "none", pre |-> NoSetup,
   logs |-> 0, snap |-> <<>>]

NoScope == [open |-> FALSE, sid |-> EmptyId]

\* no TelemetryConfig object, no ConfigError
NoObject == [made |-> FALSE]
NoError == <<>>

\* no dispatch made
NoDispatch == [made |-> FALSE]

\* no exception
NoRaise == [type |-> "none", msg |-> <<>>]

\* TelemetryFlowBuilder.__init__ (builder.py 93-120): no key (None is the empty
\* text here: build reads it as `key or ""`), the default endpoint, no service
\* name, and the defaults of timeout, max_retries, batch_max_size and
\* rate_limit, all positive, as 1
NewBuilder ==
  [built |-> FALSE, key_id |-> <<>>, key_secret |-> <<>>, endpoint |-> "x",
   service_name |-> "", timeout |-> 1, max_retries |-> 1, batch_max_size |-> 1,
   rate_limit |-> 1]

\* threading.RLock
FreeRLock == [owner |-> NoThread, count |-> 0]
RLockFree(l, t) == l.owner \in {NoThread, t}
RLockAcquire(l, t) == [owner |-> t, count |-> l.count + 1]
\* a release that leaves the lock with its owner
RLockKept(l) == l

RLockRelease(l) == IF l.count = 1 THEN FreeRLock ELSE [l EXCEPT !.count = l.count - 1]

\* the registry is entered only by a thread that could take the init lock
SpansLockFreeWithInit(t) == spans_lock = NoThread /\ RLockFree(init_lock, t)

\* `with self._spans_lock:` can be entered: the lock is not held
SpansLockFree(t) == spans_lock = NoThread

\* the locks thread t holds
Held(t) ==
  {l \in {"client_lock"} : client_lock.owner = t}
    \cup {l \in {"init_lock"} : init_lock.owner = t}
    \cup {l \in {"spans_lock"} : spans_lock = t}
    \cup {l \in {"instruments_lock"} : instruments_lock = t}

\* thread t acquires lock l
Acquired(t, l) == nesting' = nesting \cup {<<h, l>> : h \in Held(t)}

Init0 ==
  /\ mode \in {"facade", "core"}
  /\ client_config \in (IF mode = "facade" THEN Configs ELSE {NoConfig})
  /\ client_initialized = FALSE
  /\ client_lock = FreeRLock
  /\ config = NoConfig
  /\ initialized = FALSE
  /\ init_lock = FreeRLock
  /\ tracer_provider = 0 /\ meter_provider = 0 /\ tracer = 0 /\ meter = 0
  /\ exporter_factory = NoConfig /\ span_processor = 0 /\ metric_reader = 0
  /\ active_spans = <<>> /\ spans_lock = NoThread
  /\ counters = <<>> /\ histograms = <<>> /\ gauges = <<>>
  /\ instruments_lock = NoThread
  /\ start_time = 0 /\ metrics_sent = 0 /\ logs_sent = 0 /\ spans_sent = 0
  /\ tproviders = <<>> /\ mproviders = <<>> /\ spans = <<>> /\ instruments = <<>>
  /\ nuuid = 0 /\ clock = 0
  /\ fr = [t \in Threads |-> IdleFrame]
  /\ ret = [t \in Threads |-> IdleFrame]
  /\ scope = [t \in Threads |-> NoScope]
  /\ setups = 0 /\ closes = 0 /\ ended = {} /\ issued = {} /\ nesting = {}
  /\ due = <<0, 0, 0>>
  /\ tc = NoObject /\ tc_error = NoError /\ tc_args = NoObject
  /\ cred = NoObject /\ cred_args = NoObject /\ bld = NewBuilder /\ raised = NoRaise
  /\ bus = <<>>
  /\ regs = <<>> /\ dispatched = NoDispatch

Init == Init0 /\ budget = MaxCalls /\ script = <<>> /\ pos = 0
InitConc == Init0 /\ budget = MaxCallsConc /\ script = <<>> /\ pos = 0
InitMetricRace ==
  Init0 /\ mode = "core" /\ budget = MaxCallsMetricRace /\ script = <<>> /\ pos = 0
InitScope ==
  Init0 /\ mode = "facade" /\ budget = MaxCallsScope /\ script = <<>> /\ pos = 0
InitSpanRace == Init0 /\ mode = "core" /\ budget = MaxCallsSpanRace /\ script = <<>> /\ pos = 0
InitHold == Init0 /\ budget = MaxCallsHold /\ script = <<>> /\ pos = 0
InitLive == Init0 /\ budget = MaxCallsLive /\ script = <<>> /\ pos = 0

\* ------------------------------------------------------------ control flow
Stay(t, f) ==
  /\ fr' = [fr EXCEPT ![t] = f]
  /\ UNCHANGED <<ret, scope, issued, due>>

Goto(t, l) == Stay(t, [fr[t] EXCEPT !.pc = l])

\* what leaves the `with client.span(...)` block (client.py 408-416): the
\* exception of end_span in the finally clause replaces the body's
Propagated(f) ==
  IF f.cm = "exit" /\ f.exc = "none" /\ f.err THEN "BodyError" ELSE f.exc

\* what the caller sees of a completed call: the locals of the frame are gone
Outcome(f) ==
  [f EXCEPT !.pc = "idle", !.prop = Propagated(f), !.reg = 0, !.inst = 0, !.n = 0,
            !.name = 0, !.kind = "none", !.cfg = NoConfig, !.outer = "none",
            !.pre = IF f.op = "initialize" /\ f.exc # "none" THEN f.pre ELSE NoSetup,
            !.logs = 0, !.snap = <<>>]

\* what a call that returns now was to add to metrics_sent, logs_sent and
\* spans_sent: one per counter, gauge or histogram value recorded, two per
\* generic metric, one per log, one per span started; nothing when the session
\* is not Ready, the signal has no pipeline, or the call was rejected
Owed(f) ==
  IF f.exc # "none" \/ ~initialized THEN <<0, 0, 0>>
  ELSE CASE f.op \in {"record_counter", "record_gauge", "record_histogram"} ->
              <<IF meter # 0 THEN 1 ELSE 0, 0, 0>>
         [] f.op = "record_metric" -> <<IF meter # 0 THEN 2 ELSE 0, 0, 0>>
         [] f.op = "emit_log" -> <<0, 1, 0>>
         [] f.op = "emit_batch_logs" -> <<0, f.logs, 0>>
         [] f.op = "start_span" -> <<0, 0, IF tracer # 0 THEN 1 ELSE 0>>
         [] OTHER -> <<0, 0, 0>>

\* the call returns to the application
Return(t, f) ==
  /\ fr' = [fr EXCEPT ![t] = IdleFrame]
  /\ ret' = [ret EXCEPT ![t] = Outcome(f)]
  /\ scope' = [scope EXCEPT ![t] =
                 IF f.cm = "enter"
                   THEN IF f.exc = "none" THEN [open |-> TRUE, sid |-> f.val] ELSE NoScope
                   ELSE IF f.cm = "exit" THEN NoScope ELSE @]
  /\ issued' = IF f.op = "start_span" /\ f.exc = "none" THEN issued \cup {f.val} ELSE issued
  /\ due' = [i \in 1..3 |-> due[i] + Owed(f)[i]]

\* a handler of TelemetryCommandHandler returns or raises (f.exc): control goes
\* back to whoever called it
Finish(t, f) ==
  IF f.outer = "metric" /\ f.exc = "none"
    THEN Stay(t, [f EXCEPT !.pc = "rm_read", !.outer = "none"])
  ELSE IF f.outer = "batch" /\ f.exc = "none" /\ f.n > 1
    THEN Stay(t, [f EXCEPT !.pc = "log_check", !.n = f.n - 1])
  ELSE IF f.via = "facade" /\ f.op = "initialize"
    THEN Stay(t, [f EXCEPT !.pc = "c_init_after"])
  ELSE IF f.via = "facade" /\ f.op = "shutdown"
    THEN Stay(t, [f EXCEPT !.pc = "c_sd_finally"])
  ELSE Return(t, f)

\* a counter that counts each value twice
IncrementedTwice(reg) == reg + 2

\* the write of `self._metrics_sent += 1`, `self._logs_sent += 1` and
\* `self._spans_sent += 1` (lines 248, 265, 286, 305, 321, 348)
Incremented(reg) == reg + 1

\* a shutdown that resets a counter
SentReset(n) == n - n

\* _handle_shutdown (185-222) assigns none of the three counters
SentKept(n) == n

\* ---------------------------------------------------- _handle_initialize
\* the fields _handle_initialize, _init_tracer and _init_meter assign
Setup == <<config, exporter_factory, span_processor, tracer_provider, tracer,
           metric_reader, meter_provider, meter, start_time>>

\* an initialize without the guard
AlreadyInitializedNever == FALSE

\* line 124: if self._initialized
AlreadyInitialized == initialized

\* lines 124-130: the guard, then config, exporter factory and resource
init_check(t) ==
  /\ fr[t].pc = "init_check"
  /\ RLockFree(init_lock, t)
  /\ Acquired(t, "init_lock")
  /\ IF AlreadyInitialized
       THEN /\ Finish(t, fr[t])
            /\ UNCHANGED <<init_lock, config, exporter_factory>>
       ELSE /\ config' = fr[t].cfg
            /\ exporter_factory' = fr[t].cfg
            /\ \E ok \in BOOLEAN :
                 IF ok
                   THEN /\ Stay(t, [fr[t] EXCEPT !.pc = "init_tracer", !.pre = Setup])
                        /\ init_lock' = RLockAcquire(init_lock, t)
                   ELSE /\ Finish(t, [fr[t] EXCEPT !.exc = "SetupError", !.pre = Setup])
                        /\ UNCHANGED init_lock
  /\ UNCHANGED <<mode, auxVars, budget, clientVars, initialized, tracer_provider,
                 meter_provider, tracer, meter, span_processor,
                 metric_reader, start_time, spanVars, cacheVars, sentVars, extVars,
                 setups, closes, ended>>

NewProvider == [flush |-> 0, shut |-> 0]

\* lines 133-134 and _init_tracer
init_tracer(t) ==
  /\ fr[t].pc = "init_tracer"
  /\ IF config.enable_traces /\ exporter_factory.present /\ config.present
       THEN \E ok \in BOOLEAN :
              IF ok
                THEN /\ tproviders' = Append(tproviders, NewProvider)
                     /\ span_processor' = Len(tproviders) + 1
                     /\ tracer_provider' = Len(tproviders) + 1
                     /\ tracer' = Len(tproviders) + 1
                     /\ Goto(t, "init_meter")
                     /\ UNCHANGED init_lock
                ELSE /\ init_lock' = RLockRelease(init_lock)
                     /\ Finish(t, [fr[t] EXCEPT !.exc = "SetupError"])
                     /\ UNCHANGED <<tproviders, span_processor, tracer_provider, tracer>>
       ELSE /\ Goto(t, "init_meter")
            /\ UNCHANGED <<init_lock, tproviders, span_processor, tracer_provider, tracer>>
  /\ UNCHANGED <<mode, auxVars, budget, clientVars, config, initialized,
                 meter_provider, meter, exporter_factory,
                 metric_reader, start_time, spanVars, cacheVars, sentVars,
                 mproviders, spans, instruments, nuuid, clock,
                 setups, closes, ended, nesting>>

\* lines 137-138 and _init_meter
init_meter(t) ==
  /\ fr[t].pc = "init_meter"
  /\ IF config.enable_metrics /\ exporter_factory.present /\ config.present
       THEN \E ok \in BOOLEAN :
              IF ok
                THEN /\ mproviders' = Append(mproviders, NewProvider)
                     /\ metric_reader' = Len(mproviders) + 1
                     /\ meter_provider' = Len(mproviders) + 1
                     /\ meter' = Len(mproviders) + 1
                     /\ Goto(t, "init_done")
                     /\ UNCHANGED init_lock
                ELSE /\ init_lock' = RLockRelease(init_lock)
                     /\ Finish(t, [fr[t] EXCEPT !.exc = "SetupError"])
                     /\ UNCHANGED <<mproviders, metric_reader, meter_provider, meter>>
       ELSE /\ Goto(t, "init_done")
            /\ UNCHANGED <<init_lock, mproviders, metric_reader, meter_provider, meter>>
  /\ UNCHANGED <<mode, auxVars, budget, clientVars, config, initialized,
                 tracer_provider, tracer, exporter_factory,
                 span_processor, start_time, spanVars, cacheVars, sentVars,
                 tproviders, spans, instruments, nuuid, clock,
                 setups, closes, ended, nesting>>

\* lines 140-142
init_done(t) ==
  /\ fr[t].pc = "init_done"
  /\ initialized' = TRUE
  /\ clock' = clock + 1
  /\ start_time' = clock + 1
  /\ setups' = setups + 1
  /\ closes' = 0
  /\ init_lock' = RLockRelease(init_lock)
  /\ Finish(t, [fr[t] EXCEPT !.ran = TRUE])
  /\ UNCHANGED <<mode, auxVars, budget, clientVars, config, tracer_provider,
                 meter_provider, tracer, meter, exporter_factory, span_processor,
                 metric_reader, spanVars, cacheVars, sentVars,
                 tproviders, mproviders, spans, instruments, nuuid, ended, nesting>>

\* ------------------------------------------------------- _handle_shutdown
\* a shutdown without the guard
NotInitializedNever == FALSE

\* line 188: if not self._initialized
NotInitialized == ~initialized

\* lines 188-191
sd_check(t) ==
  /\ fr[t].pc = "sd_check"
  /\ RLockFree(init_lock, t)
  /\ Acquired(t, "init_lock")
  /\ IF NotInitialized
       THEN /\ Finish(t, fr[t])
            /\ UNCHANGED <<init_lock, setups, closes>>
       ELSE /\ Stay(t, [fr[t] EXCEPT !.pc = "sd_flush_trace", !.ran = TRUE, !.errs = 0,
                                      !.both = (tracer_provider # 0 /\ meter_provider # 0)])
            /\ setups' = 0
            /\ closes' = closes + 1
            /\ init_lock' = RLockAcquire(init_lock, t)
  /\ UNCHANGED <<mode, auxVars, budget, clientVars, config, initialized, tracer_provider,
                 meter_provider, tracer, meter, exporter_factory, span_processor,
                 metric_reader, start_time, spanVars, cacheVars, sentVars, extVars, ended>>

\* a call on the external pipeline returns or raises
Outcomes == {"ok", "raise"}

\* one try block around both pipelines
TraceFailedSkipsMeter(f) ==
  [f EXCEPT !.pc = "sd_clear", !.errs = f.errs + 1, !.failed = f.failed \cup {"trace"}]

\* after the trace pipeline's try block (lines 194-202) has caught an exception
TraceFailed(f) ==
  [f EXCEPT !.pc = "sd_meter", !.errs = f.errs + 1, !.failed = f.failed \cup {"trace"}]

\* lines 194-198: force_flush of the tracer provider
sd_flush_trace(t) ==
  /\ fr[t].pc = "sd_flush_trace"
  /\ IF tracer_provider # 0
       THEN /\ tproviders' = [tproviders EXCEPT ![tracer_provider].flush = @ + 1]
            /\ \E o \in Outcomes :
                 IF o = "ok" THEN Goto(t, "sd_shutdown_trace")
                             ELSE Stay(t, TraceFailed(fr[t]))
       ELSE /\ Goto(t, "sd_meter")
            /\ UNCHANGED tproviders
  /\ UNCHANGED <<mode, auxVars, budget, clientVars, lifeVars, spanVars, cacheVars, sentVars,
                 mproviders, spans, instruments, nuuid, clock, setups, closes, ended, nesting>>

\* line 199: shutdown of the tracer provider
sd_shutdown_trace(t) ==
  /\ fr[t].pc = "sd_shutdown_trace"
  /\ tproviders' = [tproviders EXCEPT ![tracer_provider].shut = @ + 1]
  /\ \E o \in Outcomes :
       IF o = "ok" THEN Goto(t, "sd_meter")
                   ELSE Stay(t, TraceFailed(fr[t]))
  /\ UNCHANGED <<mode, auxVars, budget, clientVars, lifeVars, spanVars, cacheVars, sentVars,
                 mproviders, spans, instruments, nuuid, clock, setups, closes, ended, nesting>>

\* the exception is logged and not collected
MeterFailedUncounted(f) ==
  [f EXCEPT !.pc = "sd_clear", !.mshut = TRUE, !.failed = f.failed \cup {"metric"}]

\* lines 210-212: the meter pipeline's shutdown raised
MeterFailed(f) ==
  [f EXCEPT !.pc = "sd_clear", !.mshut = TRUE, !.errs = f.errs + 1,
            !.failed = f.failed \cup {"metric"}]

\* lines 205-212: shutdown of the meter provider
sd_meter(t) ==
  /\ fr[t].pc = "sd_meter"
  /\ IF meter_provider # 0
       THEN /\ mproviders' = [mproviders EXCEPT ![meter_provider].shut = @ + 1]
            /\ \E o \in Outcomes :
                 IF o = "ok"
                   THEN Stay(t, [fr[t] EXCEPT !.pc = "sd_clear", !.mshut = TRUE])
                   ELSE Stay(t, MeterFailed(fr[t]))
       ELSE /\ Goto(t, "sd_clear")
            /\ UNCHANGED mproviders
  /\ UNCHANGED <<mode, auxVars, budget, clientVars, lifeVars, spanVars, cacheVars, sentVars,
                 tproviders, spans, instruments, nuuid, clock, setups, closes, ended, nesting>>

\* the clear is skipped when a pipeline failed
AfterClearOnSuccess(f, d) == IF f.errs > 0 THEN d ELSE <<>>

\* line 216: self._active_spans.clear()
AfterClear(f, d) == <<>>

\* lines 215-216: under the spans lock
sd_clear(t) ==
  /\ fr[t].pc = "sd_clear"
  /\ SpansLockFree(t)
  /\ Acquired(t, "spans_lock")
  /\ active_spans' = AfterClear(fr[t], active_spans)
  /\ spans_lock' = NoThread
  /\ Stay(t, [fr[t] EXCEPT !.pc = "sd_done", !.cleared = Cardinality(DOMAIN active_spans)])
  /\ UNCHANGED <<mode, auxVars, budget, clientVars, lifeVars, cacheVars, sentVars,
                 extVars, setups, closes, ended>>

\* lines 218-222
sd_done(t) ==
  /\ fr[t].pc = "sd_done"
  /\ initialized' = FALSE
  /\ init_lock' = RLockRelease(init_lock)
  /\ metrics_sent' = SentKept(metrics_sent)
  /\ logs_sent' = SentKept(logs_sent)
  /\ spans_sent' = SentKept(spans_sent)
  /\ Finish(t, [fr[t] EXCEPT !.exc = IF fr[t].errs > 0 THEN "RuntimeError" ELSE "none",
                             !.val = fr[t].errs])
  /\ UNCHANGED <<mode, auxVars, budget, clientVars, config, tracer_provider,
                 meter_provider, tracer, meter, exporter_factory, span_processor,
                 metric_reader, start_time, spanVars, cacheVars, extVars,
                 setups, closes, ended, nesting>>

\* ---------------------------------------------------------- _handle_flush
fl_check(t) ==
  /\ fr[t].pc = "fl_check"
  /\ IF ~initialized THEN Finish(t, fr[t]) ELSE Goto(t, "fl_trace")
  /\ UNCHANGED <<mode, auxVars, budget, clientVars, coreVars, extVars, setups, closes, ended, nesting>>

\* lines 229-230
fl_trace(t) ==
  /\ fr[t].pc = "fl_trace"
  /\ IF tracer_provider # 0
       THEN /\ tproviders' = [tproviders EXCEPT ![tracer_provider].flush = @ + 1]
            /\ \E o \in Outcomes :
                 IF o = "ok" THEN Goto(t, "fl_meter")
                             ELSE Finish(t, [fr[t] EXCEPT !.exc = "ExportError"])
       ELSE /\ Goto(t, "fl_meter")
            /\ UNCHANGED tproviders
  /\ UNCHANGED <<mode, auxVars, budget, clientVars, coreVars,
                 mproviders, spans, instruments, nuuid, clock, setups, closes, ended, nesting>>

\* lines 232-233
fl_meter(t) ==
  /\ fr[t].pc = "fl_meter"
  /\ IF meter_provider # 0
       THEN /\ mproviders' = [mproviders EXCEPT ![meter_provider].flush = @ + 1]
            /\ \E o \in Outcomes :
                 IF o = "ok" THEN Finish(t, fr[t])
                             ELSE Finish(t, [fr[t] EXCEPT !.exc = "ExportError"])
       ELSE /\ Finish(t, fr[t])
            /\ UNCHANGED mproviders
  /\ UNCHANGED <<mode, auxVars, budget, clientVars, coreVars,
                 tproviders, spans, instruments, nuuid, clock, setups, closes, ended, nesting>>

\* ------------------------------------------- metric instruments (250-305)
Kinds == {"counter", "gauge", "histogram"}

\* self._counters, self._gauges or self._histograms
Cache(kind) ==
  CASE kind = "counter" -> counters
    [] kind = "gauge" -> gauges
    [] OTHER -> histograms

\* the guard of _handle_record_counter / _gauge / _histogram
rec_check(t) ==
  /\ fr[t].pc = "rec_check"
  /\ IF ~initialized \/ meter = 0 THEN Finish(t, fr[t]) ELSE Goto(t, "rec_get")
  /\ UNCHANGED <<mode, auxVars, budget, clientVars, coreVars, extVars, setups, closes, ended, nesting>>

\* a lookup that never finds the name
InCacheNever(name, cache) == FALSE

\* lines 256, 274, 294: command.name in self._counters / _gauges / _histograms
InCache(name, cache) == name \in DOMAIN cache

\* the cache after the check-then-create of lines 256-262 for f.name
Cached(f, cache) ==
  IF InCache(f.name, cache)
    THEN cache
    ELSE [k \in DOMAIN cache \cup {f.name} |->
            IF k = f.name THEN Len(instruments) + 1 ELSE cache[k]]

\* lines 255-262, 273-280, 293-301: under the instruments lock
rec_get(t) ==
  /\ fr[t].pc = "rec_get"
  /\ instruments_lock = NoThread
  /\ Acquired(t, "instruments_lock")
  /\ LET f == fr[t]
         cache == Cached(f, Cache(f.kind))
     IN /\ instruments' =
             IF InCache(f.name, Cache(f.kind))
               THEN instruments
               ELSE Append(instruments,
                           [meter |-> meter, kind |-> f.kind, name |-> f.name, recs |-> 0])
        /\ counters' = IF f.kind = "counter" THEN cache ELSE counters
        /\ gauges' = IF f.kind = "gauge" THEN cache ELSE gauges
        /\ histograms' = IF f.kind = "histogram" THEN cache ELSE histograms
        /\ Stay(t, [f EXCEPT !.pc = "rec_add", !.inst = cache[f.name]])
  /\ instruments_lock' = NoThread
  /\ UNCHANGED <<mode, auxVars, budget, clientVars, lifeVars, spanVars, sentVars,
                 tproviders, mproviders, spans, nuuid, clock, setups, closes, ended>>

\* counter.add / gauge.add / histogram.record, then the read of `+= 1`
rec_add(t) ==
  /\ fr[t].pc = "rec_add"
  /\ instruments' = [instruments EXCEPT ![fr[t].inst].recs = @ + 1]
  /\ Stay(t, [fr[t] EXCEPT !.pc = "rec_write", !.reg = metrics_sent])
  /\ UNCHANGED <<mode, auxVars, budget, clientVars, coreVars,
                 tproviders, mproviders, spans, nuuid, clock, setups, closes, ended, nesting>>

\* the write of `self._metrics_sent += 1`
rec_write(t) ==
  /\ fr[t].pc = "rec_write"
  /\ metrics_sent' = Incremented(fr[t].reg)
  /\ Finish(t, fr[t])
  /\ UNCHANGED <<mode, auxVars, budget, clientVars, lifeVars, spanVars, cacheVars, logs_sent,
                 spans_sent, extVars, setups, closes, ended, nesting>>

\* a generic metric recorded through the counter handler
DelegateCounter == "counter"

\* lines 240-246: the generic metric is handed to _handle_record_gauge
Delegate == "gauge"

\* _handle_record_metric, lines 237-247: the guard, then the gauge handler
rm_check(t) ==
  /\ fr[t].pc = "rm_check"
  /\ IF ~initialized \/ meter = 0
       THEN Finish(t, fr[t])
       ELSE Stay(t, [fr[t] EXCEPT !.pc = "rec_check", !.kind = Delegate, !.outer = "metric",
                                  !.snap = <<metrics_sent, instruments>>])
  /\ UNCHANGED <<mode, auxVars, budget, clientVars, coreVars, extVars, setups, closes, ended, nesting>>

\* line 248, the read
rm_read(t) ==
  /\ fr[t].pc = "rm_read"
  /\ Stay(t, [fr[t] EXCEPT !.pc = "rm_write", !.reg = metrics_sent])
  /\ UNCHANGED <<mode, auxVars, budget, clientVars, coreVars, extVars, setups, closes, ended, nesting>>

\* line 248, the write
rm_write(t) ==
  /\ fr[t].pc = "rm_write"
  /\ metrics_sent' = Incremented(fr[t].reg)
  /\ Finish(t, fr[t])
  /\ UNCHANGED <<mode, auxVars, budget, clientVars, lifeVars, spanVars, cacheVars, logs_sent,
                 spans_sent, extVars, setups, closes, ended, nesting>>

\* ------------------------------------------------------- logs (307-326)
\* _handle_emit_batch_logs: the loop over command.logs
batch_start(t) ==
  /\ fr[t].pc = "batch_start"
  /\ IF fr[t].n = 0
       THEN Finish(t, fr[t])
       ELSE Stay(t, [fr[t] EXCEPT !.pc = "log_check", !.outer = "batch"])
  /\ UNCHANGED <<mode, auxVars, budget, clientVars, coreVars, extVars, setups, closes, ended, nesting>>

\* line 309.  The span event of lines 314-319 goes to the span current in the
\* caller's context, which no handler of this class sets.
log_check(t) ==
  /\ fr[t].pc = "log_check"
  /\ IF ~initialized THEN Finish(t, fr[t]) ELSE Goto(t, "log_read")
  /\ UNCHANGED <<mode, auxVars, budget, clientVars, coreVars, extVars, setups, closes, ended, nesting>>

log_read(t) ==
  /\ fr[t].pc = "log_read"
  /\ Stay(t, [fr[t] EXCEPT !.pc = "log_write", !.reg = logs_sent])
  /\ UNCHANGED <<mode, auxVars, budget, clientVars, coreVars, extVars, setups, closes, ended, nesting>>

log_write(t) ==
  /\ fr[t].pc = "log_write"
  /\ logs_sent' = Incremented(fr[t].reg)
  /\ Finish(t, fr[t])
  /\ UNCHANGED <<mode, auxVars, budget, clientVars, lifeVars, spanVars, cacheVars, metrics_sent,
                 spans_sent, extVars, setups, closes, ended, nesting>>

\* ------------------------------------------------------ spans (328-378)
\* the guard without the initialized flag
SpanGuardTracerOnly == tracer = 0

\* line 330
SpanGuard == ~initialized \/ tracer = 0

ss_check(t) ==
  /\ fr[t].pc = "ss_check"
  /\ IF SpanGuard
       THEN Finish(t, [fr[t] EXCEPT !.val = EmptyId])
       ELSE Goto(t, "ss_start")
  /\ UNCHANGED <<mode, auxVars, budget, clientVars, coreVars, extVars, setups, closes, ended, nesting>>

NewSpan(tr) == [tracer |-> tr, status |-> "UNSET", ended |-> 0, events |-> 0,
                recorded |-> FALSE]

\* lines 337-341: self._tracer.start_span
ss_start(t) ==
  /\ fr[t].pc = "ss_start"
  /\ spans' = Append(spans, NewSpan(tracer))
  /\ Stay(t, [fr[t] EXCEPT !.pc = "ss_insert", !.span = Len(spans) + 1])
  /\ UNCHANGED <<mode, auxVars, budget, clientVars, coreVars,
                 tproviders, mproviders, instruments, nuuid, clock, setups, closes, ended, nesting>>

\* an assignment that loses the other entries
PutAlone(d, k, v) == [x \in {k} |-> v]

\* dict assignment d[k] = v
Put(d, k, v) == [x \in DOMAIN d \cup {k} |-> IF x = k THEN v ELSE d[x]]

\* a lookup that leaves the entry in place
WithoutNothing(d, k) == d

\* the dict after d.pop(k, None)
Without(d, k) == [x \in DOMAIN d \ {k} |-> d[x]]

\* lines 344-346: a fresh uuid4, stored under the spans lock
ss_insert(t) ==
  /\ fr[t].pc = "ss_insert"
  /\ SpansLockFree(t)
  /\ Acquired(t, "spans_lock")
  /\ nuuid' = nuuid + 1
  /\ active_spans' = Put(active_spans, nuuid + 1, fr[t].span)
  /\ spans_lock' = NoThread
  /\ Stay(t, [fr[t] EXCEPT !.pc = "ss_read", !.sid = nuuid + 1])
  /\ UNCHANGED <<mode, auxVars, budget, clientVars, lifeVars, cacheVars, sentVars,
                 tproviders, mproviders, spans, instruments, clock, setups, closes, ended>>

\* line 348, the read
ss_read(t) ==
  /\ fr[t].pc = "ss_read"
  /\ Stay(t, [fr[t] EXCEPT !.pc = "ss_write", !.reg = spans_sent])
  /\ UNCHANGED <<mode, auxVars, budget, clientVars, coreVars, extVars, setups, closes, ended, nesting>>

\* line 348, the write, and the return of the id
ss_write(t) ==
  /\ fr[t].pc = "ss_write"
  /\ spans_sent' = Incremented(fr[t].reg)
  /\ Finish(t, [fr[t] EXCEPT !.val = fr[t].sid])
  /\ UNCHANGED <<mode, auxVars, budget, clientVars, lifeVars, spanVars, cacheVars, metrics_sent,
                 logs_sent, extVars, setups, closes, ended, nesting>>

\* lines 353-354: self._active_spans.pop(span_id, None)
es_pop(t) ==
  /\ fr[t].pc = "es_pop"
  /\ SpansLockFree(t)
  /\ Acquired(t, "spans_lock")
  /\ active_spans' = Without(active_spans, fr[t].sid)
  /\ spans_lock' = NoThread
  /\ Stay(t, [fr[t] EXCEPT !.pc = "es_end",
                           !.span = IF fr[t].sid \in DOMAIN active_spans
                                      THEN active_spans[fr[t].sid] ELSE 0])
  /\ UNCHANGED <<mode, auxVars, budget, clientVars, lifeVars, cacheVars, sentVars,
                 extVars, setups, closes, ended>>

\* a handler that raises for an id it does not find
SpanNotFoundRaises(f) == [f EXCEPT !.exc = "KeyError"]

\* lines 357-358 and 374-375: a warning is logged and the handler returns
SpanNotFound(f) == f

\* an end_span that does not look at what pop returned
SpanMissingNever(f) == FALSE

\* line 356: if span is None
SpanMissing(f) == f.span = 0

\* lines 356-366
es_end(t) ==
  /\ fr[t].pc = "es_end"
  /\ IF SpanMissing(fr[t])
       THEN /\ Finish(t, SpanNotFound(fr[t]))
            /\ UNCHANGED <<spans, ended>>
       ELSE /\ spans' = [spans EXCEPT ![fr[t].span] =
                           [@ EXCEPT !.status = IF fr[t].err THEN "ERROR" ELSE "OK",
                                     !.recorded = fr[t].err,
                                     !.ended = @ + 1]]
            /\ ended' = ended \cup {fr[t].sid}
            /\ Finish(t, [fr[t] EXCEPT !.ran = TRUE])
  /\ UNCHANGED <<mode, auxVars, budget, clientVars, coreVars,
                 tproviders, mproviders, instruments, nuuid, clock, setups, closes, nesting>>

\* lines 370-371: self._active_spans.get(span_id)
ae_get(t) ==
  /\ fr[t].pc = "ae_get"
  /\ SpansLockFree(t)
  /\ Acquired(t, "spans_lock")
  /\ spans_lock' = NoThread
  /\ Stay(t, [fr[t] EXCEPT !.pc = "ae_add",
                           !.span = IF fr[t].sid \in DOMAIN active_spans
                                      THEN active_spans[fr[t].sid] ELSE 0])
  /\ UNCHANGED <<mode, auxVars, budget, clientVars, lifeVars, active_spans, cacheVars, sentVars,
                 extVars, setups, closes, ended>>

\* lines 373-378
ae_add(t) ==
  /\ fr[t].pc = "ae_add"
  /\ IF fr[t].span = 0
       THEN /\ Finish(t, SpanNotFound(fr[t]))
            /\ UNCHANGED spans
       ELSE /\ spans' = [spans EXCEPT ![fr[t].span].events = @ + 1]
            /\ Finish(t, [fr[t] EXCEPT !.ran = TRUE])
  /\ UNCHANGED <<mode, auxVars, budget, clientVars, coreVars,
                 tproviders, mproviders, instruments, nuuid, clock, setups, closes, ended, nesting>>

\* ------------------------------------------------- commands (commands.py)
\* EndSpanCommand.__post_init__ and AddSpanEventCommand.__post_init__ raise
\* ValueError on an empty span_id
CommandError(op, sid) == op \in {"end_span", "add_span_event"} /\ sid = EmptyId

\* TelemetryCommandHandler.handle: the handler method of each command type
Entry(op) ==
  CASE op = "initialize" -> "init_check"
    [] op = "shutdown" -> "sd_check"
    [] op = "flush" -> "fl_check"
    [] op = "record_metric" -> "rm_check"
    [] op \in {"record_counter", "record_gauge", "record_histogram"} -> "rec_check"
    [] op = "emit_log" -> "log_check"
    [] op = "emit_batch_logs" -> "batch_start"
    [] op = "start_span" -> "ss_check"
    [] op = "end_span" -> "es_pop"
    [] OTHER -> "ae_get"

\* ------------------------------------------- TelemetryFlowClient (client.py)
FacadeEntry(op) ==
  CASE op = "initialize" -> "c_init_check"
    [] op = "shutdown" -> "c_sd_check"
    [] OTHER -> "c_ensure"

\* a check that lets every call through
EnsureNeverFails == FALSE

\* client.py 447: _ensure_initialized raises
EnsureFails == ~client_initialized

\* _ensure_initialized, then the command's construction and handler.handle
c_ensure(t) ==
  /\ fr[t].pc = "c_ensure"
  /\ IF EnsureFails
       THEN Return(t, [fr[t] EXCEPT !.exc = "NotInitializedError"])
       ELSE IF CommandError(fr[t].op, fr[t].sid)
         THEN Return(t, [fr[t] EXCEPT !.exc = "ValueError"])
         ELSE Goto(t, Entry(fr[t].op))
  /\ UNCHANGED <<mode, auxVars, budget, clientVars, coreVars, extVars, setups, closes, ended, nesting>>

\* client.py 88-93
c_init_check(t) ==
  /\ fr[t].pc = "c_init_check"
  /\ RLockFree(client_lock, t)
  /\ Acquired(t, "client_lock")
  /\ IF client_initialized
       THEN /\ Return(t, fr[t])
            /\ UNCHANGED client_lock
       ELSE /\ Goto(t, Entry("initialize"))
            /\ client_lock' = RLockAcquire(client_lock, t)
  /\ UNCHANGED <<mode, auxVars, budget, client_config, client_initialized, coreVars, extVars,
                 setups, closes, ended>>

\* client.py 94-96: the handler returned, or raised and is wrapped
c_init_after(t) ==
  /\ fr[t].pc = "c_init_after"
  /\ IF fr[t].exc = "none"
       THEN /\ client_initialized' = TRUE
            /\ Return(t, fr[t])
       ELSE /\ Return(t, [fr[t] EXCEPT !.exc = "TelemetryFlowError"])
            /\ UNCHANGED client_initialized
  /\ client_lock' = RLockRelease(client_lock)
  /\ UNCHANGED <<mode, auxVars, budget, client_config, coreVars, extVars, setups, closes, ended, nesting>>

\* client.py 108-113
c_sd_check(t) ==
  /\ fr[t].pc = "c_sd_check"
  /\ RLockFree(client_lock, t)
  /\ Acquired(t, "client_lock")
  /\ IF ~client_initialized
       THEN /\ Return(t, fr[t])
            /\ UNCHANGED client_lock
       ELSE /\ Goto(t, Entry("shutdown"))
            /\ client_lock' = RLockAcquire(client_lock, t)
  /\ UNCHANGED <<mode, auxVars, budget, client_config, client_initialized, coreVars, extVars,
                 setups, closes, ended>>

\* client.py 114-115: the finally clause; the handler's exception propagates
c_sd_finally(t) ==
  /\ fr[t].pc = "c_sd_finally"
  /\ client_initialized' = FALSE
  /\ client_lock' = RLockRelease(client_lock)
  /\ Return(t, fr[t])
  /\ UNCHANGED <<mode, auxVars, budget, client_config, coreVars, extVars, setups, closes, ended, nesting>>

\* ------------------------------------------------------------- the calls
\* a caller starts a call: directly on the handler (mode "core": the command
\* is constructed, then handle dispatches it) or on the client
Call(t, f0) ==
  /\ fr[t].pc = "idle"
  /\ budget > 0
  /\ budget' = budget - 1
  /\ LET f == [f0 EXCEPT !.via = mode]
     IN IF mode = "core"
          THEN IF CommandError(f.op, f.sid)
                 THEN Return(t, [f EXCEPT !.exc = "ValueError"])
                 ELSE Stay(t, [f EXCEPT !.pc = Entry(f.op)])
          ELSE Stay(t, [f EXCEPT !.pc = FacadeEntry(f.op)])
  /\ UNCHANGED <<mode, script, tcVars, objVars, busVars, clientVars, coreVars, extVars, setups, closes, ended,
                 nesting>>

\* a call the caller chooses freely
Begin(t, f0) == Call(t, f0) /\ UNCHANGED pos

Request(op) == [IdleFrame EXCEPT !.op = op]

\* the span ids a caller can pass: one that start_span returned, the empty
\* string, or a string that names no span
Ids == issued \cup {EmptyId, Unknown}

initialize(t) ==
  \E c \in (IF mode = "facade" THEN {client_config} ELSE Configs) :
    Begin(t, [Request("initialize") EXCEPT !.cfg = c])

shutdown(t) == Begin(t, Request("shutdown"))

flush(t) == Begin(t, Request("flush"))

record_metric(t) ==
  \E n \in Names : Begin(t, [Request("record_metric") EXCEPT !.name = n])

\* increment_counter on the client
record_counter(t) ==
  \E n \in Names :
    Begin(t, [Request("record_counter") EXCEPT !.name = n, !.kind = "counter"])

record_gauge(t) ==
  \E n \in Names :
    Begin(t, [Request("record_gauge") EXCEPT !.name = n, !.kind = "gauge"])

record_histogram(t) ==
  \E n \in Names :
    Begin(t, [Request("record_histogram") EXCEPT !.name = n, !.kind = "histogram"])

\* log, log_info, log_warn, log_error and log_debug on the client
emit_log(t) == Begin(t, Request("emit_log"))

\* the handler's batch command; the client has no method for it
emit_batch_logs(t) ==
  /\ mode = "core"
  /\ \E k \in 0..MaxBatch : Begin(t, [Request("emit_batch_logs") EXCEPT !.n = k, !.logs = k])

start_span(t) == Begin(t, Request("start_span"))

end_span(t) ==
  \E i \in Ids, e \in BOOLEAN :
    Begin(t, [Request("end_span") EXCEPT !.sid = i, !.err = e])

add_span_event(t) ==
  \E i \in Ids : Begin(t, [Request("add_span_event") EXCEPT !.sid = i])

\* entering `with client.span(...)`: client.py 408
span_enter(t) ==
  /\ mode = "facade"
  /\ ~scope[t].open
  /\ Begin(t, [Request("start_span") EXCEPT !.cm = "enter"])

\* leaving the block, normally or by an exception of the body: client.py 410-416
span_exit(t) ==
  /\ mode = "facade"
  /\ scope[t].open
  /\ \E e \in BOOLEAN :
       Begin(t, [Request("end_span") EXCEPT !.cm = "exit", !.sid = scope[t].sid, !.err = e])

\* ------------------------------------------- TelemetryConfig (config.py)
\* endpoint and service_name: the empty string or some other string
Texts == {"", "x"}

\* timeout in seconds, max_retries, batch_max_size, rate_limit
Vals == (0 - MaxVal)..MaxVal

\* the outcome of TelemetryConfig(credentials, endpoint, service_name, ...)
Fields(e, s, to, mr, bs, rl) ==
  [made |-> TRUE, endpoint |-> e, service_name |-> s, timeout |-> to,
   max_retries |-> mr, batch_max_size |-> bs, rate_limit |-> rl]

\* errors.append(msg) under `if cond`
AppendIf(errors, cond, msg) == IF cond THEN Append(errors, msg) ELSE errors

\* _validate, lines 101-114: the list of errors, in the order of the checks
Errors(c) ==
  LET e1 == AppendIf(<<>>, c.endpoint = "", "Endpoint is required")
      e2 == AppendIf(e1, c.service_name = "", "Service name is required")
      e3 == AppendIf(e2, c.timeout <= 0, "Timeout must be positive")
      e4 == AppendIf(e3, c.max_retries < 0, "Max retries must be non-negative")
      e5 == AppendIf(e4, c.batch_max_size <= 0, "Batch max size must be positive")
  IN AppendIf(e5, c.rate_limit <= 0, "Rate limit must be positive")

\* a message made of the first error alone
JoinFirst(errors) == <<errors[1]>>

\* "; ".join(errors) for a non-empty list: the pieces of the message in order
Join(errors) ==
  [i \in 1..(2 * Len(errors) - 1) |-> IF i % 2 = 1 THEN errors[(i + 1) \div 2] ELSE "; "]

\* TelemetryConfig(...): __post_init__ runs _validate, which raises ConfigError
\* when the list is not empty; the application then has no object.  A run
\* follows one construction.
construct(e, s, to, mr, bs, rl) ==
  LET c == Fields(e, s, to, mr, bs, rl)
  IN /\ ~tc_args.made
     /\ tc_args' = c
     /\ IF Errors(c) = <<>>
          THEN tc' = c /\ tc_error' = NoError
          ELSE tc' = tc /\ tc_error' = Join(Errors(c))
     /\ UNCHANGED sessionVars

\* lines 164-167
with_timeout(to) ==
  /\ tc.made
  /\ tc' = [tc EXCEPT !.timeout = to]
  /\ UNCHANGED <<sessionVars, tc_error, tc_args>>

\* lines 169-180
with_retry(mr) ==
  /\ tc.made
  /\ tc' = [tc EXCEPT !.max_retries = mr]
  /\ UNCHANGED <<sessionVars, tc_error, tc_args>>

\* lines 207-215: `if max_size:` skips None and 0
with_batch_settings(bs) ==
  /\ tc.made
  /\ tc' = IF bs # 0 THEN [tc EXCEPT !.batch_max_size = bs] ELSE tc
  /\ UNCHANGED <<sessionVars, tc_error, tc_args>>

\* lines 217-220
with_rate_limit(rl) ==
  /\ tc.made
  /\ tc' = [tc EXCEPT !.rate_limit = rl]
  /\ UNCHANGED <<sessionVars, tc_error, tc_args>>

Construction ==
  \E e \in Texts, s \in Texts, to \in Vals, mr \in Vals, bs \in Vals, rl \in Vals :
    construct(e, s, to, mr, bs, rl)

Setters ==
  \E v \in Vals :
    with_timeout(v) \/ with_retry(v) \/ with_batch_settings(v) \/ with_rate_limit(v)

\* an application that constructs configurations and calls their setters
NextConfig == Construction \/ Setters

InitConfig ==
  /\ Init0 /\ mode = "core" /\ budget = 0 /\ script = <<>> /\ pos = 0

\* ------------------------------------------- Credentials (credentials.py)
\* texts are sequences of characters
KEY_ID_PREFIX == <<"t", "f", "k", "_">>
KEY_SECRET_PREFIX == <<"t", "f", "s", "_">>

\* the rest of a key: up to MaxTail characters
Tails == {[i \in 1..n |-> "a"] : n \in 0..MaxTail}

\* how a key text begins: not at all, truncated prefixes, either prefix, a
\* prefix in the wrong case, a prefix that is not at the start
Heads ==
  {<<>>, <<"t", "f", "k">>, <<"t", "f", "s">>, KEY_ID_PREFIX, KEY_SECRET_PREFIX,
   <<"T", "F", "K", "_">>, <<"x">> \o KEY_ID_PREFIX, <<"x">> \o KEY_SECRET_PREFIX}

KeyTexts == {h \o t : h \in Heads, t \in Tails}

\* a check that accepts every text
StartsWithAnything(s, p) == TRUE

\* str.startswith
StartsWith(s, p) == Len(s) >= Len(p) /\ SubSeq(s, 1, Len(p)) = p

\* Credentials._validate, lines 41-49: the message of the CredentialsError it
\* raises, or no message
KeyMessage(k, s) ==
  IF k = <<>> THEN <<"API key ID is required">>
  ELSE IF s = <<>> THEN <<"API key secret is required">>
  ELSE IF ~StartsWith(k, KEY_ID_PREFIX) THEN <<"API key ID must start with 'tfk_'">>
  ELSE IF ~StartsWith(s, KEY_SECRET_PREFIX) THEN <<"API key secret must start with 'tfs_'">>
  ELSE NoError

NewCredentials(k, s) == [made |-> TRUE, key_id |-> k, key_secret |-> s]

\* Credentials.create(key_id, key_secret), lines 100-115, with __post_init__.
\* A run follows one call.
create(k, s) ==
  /\ ~cred_args.made
  /\ cred_args' = NewCredentials(k, s)
  /\ IF KeyMessage(k, s) = NoError
       THEN cred' = NewCredentials(k, s) /\ raised' = NoRaise
       ELSE cred' = cred /\ raised' = [type |-> "CredentialsError", msg |-> KeyMessage(k, s)]
  /\ UNCHANGED <<runVars, tcVars, bld>>

NextCredentials == \E k \in KeyTexts, s \in KeyTexts : create(k, s)

InitCredentials ==
  /\ Init0 /\ mode = "core" /\ budget = 0 /\ script = <<>> /\ pos = 0

\* ---------------------------------------- TelemetryFlowBuilder (builder.py)
\* the keys a caller gives the builder: none, one without the prefix, a
\* well-formed one
BuilderKeyIds == {<<>>, <<"x">>, KEY_ID_PREFIX \o <<"a">>}
BuilderKeySecrets == {<<>>, <<"x">>, KEY_SECRET_PREFIX \o <<"a">>}

\* a fluent method of the builder: it assigns and returns self
Assign(b) ==
  /\ ~bld.built
  /\ bld' = b
  /\ UNCHANGED <<runVars, tcVars, cred, cred_args, raised>>

\* lines 122-135
with_api_key(k, s) == Assign([bld EXCEPT !.key_id = k, !.key_secret = s])

\* lines 152-163
with_endpoint(e) == Assign([bld EXCEPT !.endpoint = e])

\* lines 179-193
with_service(n) == Assign([bld EXCEPT !.service_name = n])

\* lines 376-387
builder_with_timeout(to) == Assign([bld EXCEPT !.timeout = to])

\* lines 452-473
builder_with_retry(mr) == Assign([bld EXCEPT !.max_retries = mr])

\* lines 475-492: `if max_size:` skips None and 0
builder_with_batch_settings(bs) ==
  Assign(IF bs # 0 THEN [bld EXCEPT !.batch_max_size = bs] ELSE bld)

\* lines 494-505
builder_with_rate_limit(rl) == Assign([bld EXCEPT !.rate_limit = rl])

\* TelemetryFlowBuilder._validate, lines 660-671
BuilderErrors(b) ==
  LET e1 == AppendIf(<<>>, b.key_id = <<>>, "API key ID is required")
      e2 == AppendIf(e1, b.key_secret = <<>>, "API key secret is required")
      e3 == AppendIf(e2, b.endpoint = "", "Endpoint is required")
  IN AppendIf(e3, b.service_name = "", "Service name is required")

\* a build that wraps the ConfigError as well
ConfigRaisedWrapped(msg) == [type |-> "BuilderError", msg |-> msg]

\* lines 619-642: TelemetryConfig(...) is constructed outside any try block
ConfigRaised(msg) == [type |-> "ConfigError", msg |-> msg]

\* build, lines 594-644: _validate, Credentials.create, TelemetryConfig(...),
\* TelemetryFlowClient(config).  The builder is not used after build.
build ==
  /\ ~bld.built
  /\ bld' = [bld EXCEPT !.built = TRUE]
  /\ LET c == Fields(bld.endpoint, bld.service_name, bld.timeout, bld.max_retries,
                     bld.batch_max_size, bld.rate_limit)
     IN IF BuilderErrors(bld) # <<>>
          THEN /\ raised' = [type |-> "BuilderError", msg |-> Join(BuilderErrors(bld))]
               /\ UNCHANGED <<cred, cred_args, tcVars>>
        ELSE IF KeyMessage(bld.key_id, bld.key_secret) # NoError
          THEN /\ raised' = [type |-> "BuilderError",
                              msg |-> KeyMessage(bld.key_id, bld.key_secret)]
               /\ cred_args' = NewCredentials(bld.key_id, bld.key_secret)
               /\ UNCHANGED <<cred, tcVars>>
        ELSE /\ cred' = NewCredentials(bld.key_id, bld.key_secret)
             /\ cred_args' = NewCredentials(bld.key_id, bld.key_secret)
             /\ tc_args' = c
             /\ IF Errors(c) = <<>>
                  THEN tc' = c /\ tc_error' = NoError /\ raised' = NoRaise
                  ELSE /\ tc' = tc /\ tc_error' = Join(Errors(c))
                       /\ raised' = ConfigRaised(Join(Errors(c)))
  /\ UNCHANGED runVars

Fluent ==
  \/ \E k \in BuilderKeyIds, s \in BuilderKeySecrets : with_api_key(k, s)
  \/ \E e \in Texts : with_endpoint(e) \/ with_service(e)
  \/ \E v \in Vals :
       \/ builder_with_timeout(v) \/ builder_with_retry(v)
       \/ builder_with_batch_settings(v) \/ builder_with_rate_limit(v)

\* an application that fills a builder and builds the client
NextBuilder == Fluent \/ build

InitBuilder ==
  /\ Init0 /\ mode = "core" /\ budget = 0 /\ script = <<>> /\ pos = 0

\* --------------------------------- CommandBus, QueryBus (commands.py 54-69,
\* queries.py 39-54): the two classes have the same code
\* message classes: a base class, a class derived from it, a class derived
\* from that one
MessageTypes == {"Base", "Derived", "MoreDerived"}

\* the class a class derives from
Parent(ty) ==
  CASE ty = "MoreDerived" -> "Derived"
    [] ty = "Derived" -> "Base"
    [] OTHER -> "object"

BusHandlers == {"h1", "h2"}

\* what handler h returns for a message of class ty
HandlerResult(h, ty) == <<h, ty>>

\* a lookup that falls back on the classes the message's class derives from
GetByClass(d, ty) ==
  IF ty \in DOMAIN d THEN d[ty]
  ELSE IF Parent(ty) \in DOMAIN d THEN d[Parent(ty)]
  ELSE IF Parent(Parent(ty)) \in DOMAIN d THEN d[Parent(Parent(ty))]
  ELSE "None"

\* self._handlers.get(type(message))
Get(d, ty) == IF ty \in DOMAIN d THEN d[ty] ELSE "None"

\* register, lines 60-62
register(ty, h) ==
  /\ Len(regs) < MaxRegs
  /\ bus' = Put(bus, ty, h)
  /\ regs' = Append(regs, <<ty, h>>)
  /\ dispatched' = NoDispatch
  /\ UNCHANGED offBusVars

\* dispatch, lines 64-69, of a message whose class is ty
dispatch(ty) ==
  /\ LET handler == Get(bus, ty)
     IN dispatched' =
          IF handler = "None"
            THEN [made |-> TRUE, type |-> ty, invoked |-> <<>>, result |-> "None",
                  exc |-> "ValueError", msg |-> <<"No handler registered for ", ty>>]
            ELSE [made |-> TRUE, type |-> ty, invoked |-> <<handler>>,
                  result |-> HandlerResult(handler, ty), exc |-> "none", msg |-> <<>>]
  /\ UNCHANGED <<offBusVars, bus, regs>>

NextBus ==
  \/ \E ty \in MessageTypes, h \in BusHandlers : register(ty, h)
  \/ \E ty \in MessageTypes : dispatch(ty)

InitBus ==
  /\ Init0 /\ mode = "core" /\ budget = 0 /\ script = <<>> /\ pos = 0

\* ------------------------------------------------------- a scripted caller
\* one call of a script: the operation and, for end_span and add_span_event,
\* whether it names a span id start_span returned or a string that names none
Do(op) == [op |-> op, sid |-> "none"]
On(op, which) == [op |-> op, sid |-> which]

\* initialize, increment_counter MaxRepeat times, start_span, end_span of the
\* id, shutdown
Totals ==
  <<Do("initialize")>> \o [i \in 1..MaxRepeat |-> Do("record_counter")]
    \o <<Do("start_span"), On("end_span", "issued"), Do("shutdown")>>

\* every operation once on one session
Mixed ==
  <<Do("initialize"), Do("record_gauge"), Do("record_histogram"), Do("record_metric"),
    Do("emit_log"), Do("emit_batch_logs"), Do("start_span"),
    On("add_span_event", "issued"), Do("flush"), On("end_span", "issued"),
    Do("shutdown")>>

\* a span ended twice, then given an event
EndedTwice ==
  <<Do("initialize"), Do("start_span"), On("end_span", "issued"),
    On("end_span", "issued"), On("add_span_event", "issued")>>

\* a span whose session was shut down, then ended and given an event
Cleared ==
  <<Do("initialize"), Do("start_span"), Do("shutdown"),
    On("end_span", "issued"), On("add_span_event", "issued"), Do("initialize"),
    On("end_span", "issued")>>

\* ids no start_span returned, next to a span that is active
NeverIssued ==
  <<Do("initialize"), Do("start_span"), On("end_span", "unknown"),
    On("add_span_event", "unknown"), Do("record_counter"), Do("shutdown"),
    On("end_span", "unknown")>>

\* a session used, shut down, set up again and used again
Again ==
  <<Do("initialize"), Do("record_counter"), Do("emit_log"), Do("start_span"),
    Do("shutdown"), Do("initialize"), Do("record_counter"), Do("start_span"),
    Do("shutdown")>>

Scripts == {Totals, Mixed, EndedTwice, Cleared, NeverIssued, Again}

\* the span ids a call of the script can name
Target(e) ==
  IF e.sid = "issued" /\ issued # {} THEN issued
  ELSE IF e.sid = "none" THEN {EmptyId} ELSE {Unknown}

KindOf(op) ==
  CASE op = "record_counter" -> "counter"
    [] op = "record_gauge" -> "gauge"
    [] op = "record_histogram" -> "histogram"
    [] OTHER -> "none"

\* the caller makes the next call of its script
run(t) ==
  /\ pos < Len(script)
  /\ pos' = pos + 1
  /\ LET e == script[pos + 1]
     IN \E c \in (IF e.op = "initialize" THEN Configs ELSE {NoConfig}),
           n \in (IF e.op \in {"record_counter", "record_gauge", "record_histogram",
                               "record_metric"} THEN Names ELSE {0}),
           x \in (IF e.op = "end_span" THEN BOOLEAN ELSE {FALSE}),
           i \in Target(e) :
          Call(t, [Request(e.op) EXCEPT
                     !.cfg = c, !.name = n, !.kind = KindOf(e.op), !.err = x, !.sid = i,
                     !.n = IF e.op = "emit_batch_logs" THEN MaxBatch ELSE 0,
                     !.logs = IF e.op = "emit_batch_logs" THEN MaxBatch ELSE 0])

\* the steps of a thread, by the part of the session they belong to
Lifecycle(t) ==
  \/ initialize(t) \/ shutdown(t)
  \/ c_init_check(t) \/ c_init_after(t) \/ c_sd_check(t) \/ c_sd_finally(t)
  \/ init_check(t) \/ init_tracer(t) \/ init_meter(t) \/ init_done(t)
  \/ sd_check(t) \/ sd_flush_trace(t) \/ sd_shutdown_trace(t)
  \/ sd_meter(t) \/ sd_clear(t) \/ sd_done(t)

Flushing(t) == flush(t) \/ fl_check(t) \/ fl_trace(t) \/ fl_meter(t)

Metrics(t) ==
  \/ record_metric(t) \/ record_counter(t) \/ record_gauge(t) \/ record_histogram(t)
  \/ rm_check(t) \/ rm_read(t) \/ rm_write(t)
  \/ rec_check(t) \/ rec_get(t) \/ rec_add(t) \/ rec_write(t)

Logs(t) ==
  \/ emit_log(t) \/ emit_batch_logs(t)
  \/ batch_start(t) \/ log_check(t) \/ log_read(t) \/ log_write(t)

Spans(t) ==
  \/ start_span(t) \/ end_span(t) \/ add_span_event(t)
  \/ span_enter(t) \/ span_exit(t)
  \/ ss_check(t) \/ ss_start(t) \/ ss_insert(t) \/ ss_read(t) \/ ss_write(t)
  \/ es_pop(t) \/ es_end(t)
  \/ ae_get(t) \/ ae_add(t)

\* one caller, every operation
Next ==
  \E t \in SeqThreads :
    Lifecycle(t) \/ Flushing(t) \/ Metrics(t) \/ Logs(t) \/ Spans(t) \/ c_ensure(t)

\* two callers, the lifecycle and the span operations
NextConc == \E t \in Threads : Lifecycle(t) \/ Spans(t) \/ c_ensure(t)

\* two callers, every operation
NextHold ==
  \E t \in Threads :
    Lifecycle(t) \/ Flushing(t) \/ Metrics(t) \/ Logs(t) \/ Spans(t) \/ c_ensure(t)

\* _handle_initialize alone
Initializing(t) ==
  initialize(t) \/ init_check(t) \/ init_tracer(t) \/ init_meter(t) \/ init_done(t)

\* start_span and end_span
SpanRegistry(t) ==
  \/ start_span(t) \/ end_span(t)
  \/ ss_check(t) \/ ss_start(t) \/ ss_insert(t) \/ ss_read(t) \/ ss_write(t)
  \/ es_pop(t) \/ es_end(t)

\* one caller on the client: the lifecycle and the span operations, the span
\* context manager among them
NextScope == \E t \in SeqThreads : Lifecycle(t) \/ Spans(t) \/ c_ensure(t)

\* the metric handlers
Recording(t) ==
  \/ record_metric(t) \/ record_counter(t) \/ record_gauge(t) \/ record_histogram(t)
  \/ rm_check(t) \/ rm_read(t) \/ rm_write(t)
  \/ rec_check(t) \/ rec_get(t) \/ rec_add(t) \/ rec_write(t)

\* two callers on the handler: initialize and the metric calls
NextMetricRace == \E t \in Threads : Initializing(t) \/ Recording(t)

\* two callers on the handler: initialize, start_span and end_span
NextSpanRace == \E t \in Threads : Initializing(t) \/ SpanRegistry(t)

\* the steps inside the handlers of TelemetryCommandHandler
Handling(t) ==
  \/ init_check(t) \/ init_tracer(t) \/ init_meter(t) \/ init_done(t)
  \/ sd_check(t) \/ sd_flush_trace(t) \/ sd_shutdown_trace(t)
  \/ sd_meter(t) \/ sd_clear(t) \/ sd_done(t)
  \/ fl_check(t) \/ fl_trace(t) \/ fl_meter(t)
  \/ rm_check(t) \/ rm_read(t) \/ rm_write(t)
  \/ rec_check(t) \/ rec_get(t) \/ rec_add(t) \/ rec_write(t)
  \/ batch_start(t) \/ log_check(t) \/ log_read(t) \/ log_write(t)
  \/ ss_check(t) \/ ss_start(t) \/ ss_insert(t) \/ ss_read(t) \/ ss_write(t)
  \/ es_pop(t) \/ es_end(t)
  \/ ae_get(t) \/ ae_add(t)

\* a call in progress goes on: the next step of the client method or of the
\* handler it is in
Progress(t) ==
  \/ c_ensure(t) \/ c_init_check(t) \/ c_init_after(t) \/ c_sd_check(t) \/ c_sd_finally(t)
  \/ Handling(t)

\* record_counter alone
Counting(t) ==
  record_counter(t) \/ rec_check(t) \/ rec_get(t) \/ rec_add(t) \/ rec_write(t)

\* two callers taking every lock: the lifecycle, start_span, end_span and
\* record_counter
NextLive ==
  \E t \in Threads : Lifecycle(t) \/ SpanRegistry(t) \/ Counting(t) \/ c_ensure(t)

\* the caller is given one of the scripts
InitScript ==
  /\ Init0 /\ mode = "core"
  /\ script \in Scripts /\ pos = 0
  /\ budget = Len(script)

\* one caller on the handler that follows a script
NextScript == \E t \in SeqThreads : run(t) \/ Handling(t)

Spec == Init /\ [][Next]_vars
SpecMetricRace == InitMetricRace /\ [][NextMetricRace]_vars
SpecCredentials == InitCredentials /\ [][NextCredentials]_vars
SpecBuilder == InitBuilder /\ [][NextBuilder]_vars
SpecBus == InitBus /\ [][NextBus]_vars
SpecConfig == InitConfig /\ [][NextConfig]_vars
SpecScope == InitScope /\ [][NextScope]_vars
SpecScript == InitScript /\ [][NextScript]_vars
SpecSpanRace == InitSpanRace /\ [][NextSpanRace]_vars
SpecConc == InitConc /\ [][NextConc]_vars
SpecHold == InitHold /\ [][NextHold]_vars
\* every thread that can go on does: the external pipeline calls return and a
\* thread whose lock is free is scheduled
SpecLive == InitLive /\ [][NextLive]_vars /\ \A t \in Threads : WF_vars(Progress(t))

\* ================================================================ properties
\* thread t is back in the application and its last call was op
Returned(t, op) == fr[t].pc = "idle" /\ ret[t].op = op

\* thread t takes a step
Moves(t) == fr'[t] # fr[t]

\* the step of thread t ends its call
Returns(t) == fr[t].pc # "idle" /\ fr'[t].pc = "idle"

\* C1: once a shutdown that found the session Ready has returned or raised,
\* whatever the trace and the metric pipeline did, the span registry is empty
\* and initialized is false, in the core and in the facade client.
ShutdownLeavesUninitialized ==
  \A t \in Threads :
    Returned(t, "shutdown") /\ ret[t].ran =>
      /\ DOMAIN active_spans = {}
      /\ ~initialized
      /\ ~client_initialized

\* a shutdown in which both pipelines failed has raised, with a span open
ShutdownLeavesUninitializedWitness ==
  \E t \in Threads :
    /\ Returned(t, "shutdown") /\ ret[t].ran
    /\ ret[t].failed = {"trace", "metric"}
    /\ ret[t].exc = "RuntimeError"
    /\ ret[t].cleared > 0

\* C2: with both pipelines active, a shutdown that found the session Ready has
\* invoked the metric pipeline's shutdown by the time it returns, whether or not
\* the trace pipeline's flush or shutdown raised.
MeterShutdownAttempted ==
  \A t \in Threads :
    Returned(t, "shutdown") /\ ret[t].ran /\ ret[t].both =>
      /\ ret[t].mshut
      /\ mproviders[meter_provider].shut >= 1

\* the trace pipeline raised and the metric pipeline was shut down all the same
MeterShutdownAttemptedWitness ==
  \E t \in Threads :
    /\ Returned(t, "shutdown") /\ ret[t].ran /\ ret[t].both
    /\ "trace" \in ret[t].failed
    /\ ret[t].mshut
    /\ mproviders[meter_provider].shut >= 1

\* C3: a shutdown in which k >= 1 pipelines failed raises one aggregated error
\* whose count is k; a shutdown in which none failed raises nothing.
AggregatedErrorCount ==
  \A t \in Threads :
    Returned(t, "shutdown") /\ ret[t].ran =>
      IF ret[t].failed = {}
        THEN ret[t].exc = "none"
        ELSE /\ ret[t].exc = "RuntimeError"
             /\ ret[t].val = Cardinality(ret[t].failed)

\* only the metric pipeline failed: the error counts one
AggregatedErrorCountWitness ==
  \E t \in Threads :
    /\ Returned(t, "shutdown") /\ ret[t].ran
    /\ ret[t].failed = {"metric"}
    /\ ret[t].exc = "RuntimeError"
    /\ ret[t].val = 1

\* C4: a failed initialize surfaces as an error (TelemetryFlowError from the
\* facade) and leaves the session Uninitialized with nothing of the failed
\* attempt retained: initialized is false and config, exporter factory, tracer,
\* meter, pipelines and startTime are what they were before the call, which on
\* a session that was never Ready is unset.
FailedInitializeLeavesNoState ==
  \A t \in Threads :
    Returned(t, "initialize") /\ ret[t].exc # "none" =>
      /\ ret[t].via = "facade" => ret[t].exc = "TelemetryFlowError"
      /\ ~initialized /\ ~client_initialized
      /\ Setup = ret[t].pre
      /\ clock = 0 => Setup = NoSetup

\* C5: initialize is idempotent, also when calls race: the pipeline setup has
\* completed at most once since the last shutdown, and a call that finds the
\* session Ready (the facade its flag, the core its own) returns without error
\* and leaves config, startTime, tracer, meter and pipelines unchanged.
InitializeIdempotent ==
  /\ [](setups <= 1 /\ (setups = 1 => initialized))
  /\ [][\A t \in Threads :
          /\ fr[t].pc = "init_check" /\ initialized /\ Moves(t) =>
               /\ UNCHANGED <<Setup, initialized, extVars>>
               /\ fr'[t].exc = "none"
               /\ fr'[t].pc \in {"idle", "c_init_after"}
               /\ Returns(t) => ret'[t].exc = "none" /\ ~ret'[t].ran
          /\ fr[t].pc = "c_init_check" /\ client_initialized /\ Moves(t) =>
               /\ UNCHANGED <<Setup, initialized, client_initialized, extVars>>
               /\ Returns(t) /\ ret'[t].exc = "none" /\ ~ret'[t].ran]_vars

\* both threads called initialize: one ran the setup, the other found the
\* session Ready and returned
InitializeIdempotentWitness ==
  /\ initialized /\ setups = 1
  /\ \E t, u \in Threads :
       /\ t # u
       /\ Returned(t, "initialize") /\ ret[t].ran /\ ret[t].exc = "none"
       /\ Returned(u, "initialize") /\ ~ret[u].ran /\ ret[u].exc = "none"

\* C6: shutdown is idempotent: at most one shutdown flushes and closes the
\* pipelines of a session made Ready, however the calls interleave, and a call
\* on a session that is not Ready calls no pipeline, raises nothing and changes
\* no state, also when the previous shutdown raised.
ShutdownIdempotent ==
  /\ [](closes <= 1)
  /\ [][\A t \in Threads :
          /\ fr[t].pc = "sd_check" /\ ~initialized /\ Moves(t) =>
               /\ UNCHANGED <<coreVars, extVars>>
               /\ fr'[t].exc = "none"
               /\ fr'[t].pc \in {"idle", "c_sd_finally"}
               /\ Returns(t) => ret'[t].exc = "none" /\ ~ret'[t].ran
          /\ fr[t].pc = "c_sd_check" /\ ~client_initialized /\ Moves(t) =>
               /\ UNCHANGED <<coreVars, extVars, clientVars>>
               /\ Returns(t) /\ ret'[t].exc = "none" /\ ~ret'[t].ran]_vars

\* one thread's shutdown raised, the other's then found nothing to do
ShutdownIdempotentWitness ==
  /\ closes = 1 /\ ~initialized
  /\ \E t, u \in Threads :
       /\ t # u
       /\ Returned(t, "shutdown") /\ ret[t].ran /\ ret[t].exc = "RuntimeError"
       /\ Returned(u, "shutdown") /\ ~ret[u].ran /\ ret[u].exc = "none"

\* the calls of the facade that start with _ensure_initialized
GuardedOps ==
  {"flush", "record_metric", "record_counter", "record_gauge", "record_histogram",
   "emit_log", "start_span", "end_span", "add_span_event"}

\* C7: while the facade is not initialized, flush, record_metric,
\* increment_counter, record_gauge, record_histogram, log, start_span, end_span
\* and add_span_event fail with NotInitializedError and do not reach the core.
FacadeRejectsWhenNotInitialized ==
  [][\A t \in Threads :
       /\ mode = "facade" /\ fr[t].pc = "idle" /\ Moves(t) /\ fr'[t].op \in GuardedOps =>
            fr'[t].pc = "c_ensure"
       /\ fr[t].pc = "c_ensure" /\ ~client_initialized /\ Moves(t) =>
            /\ Returns(t)
            /\ ret'[t].exc = "NotInitializedError"
            /\ UNCHANGED <<coreVars, extVars>>]_vars

\* start_span on a client that was initialized and shut down again
FacadeRejectsWhenNotInitializedWitness ==
  /\ mode = "facade" /\ ~client_initialized /\ clock > 0
  /\ \E t \in Threads :
       Returned(t, "start_span") /\ ret[t].exc = "NotInitializedError"

\* the recording and span operations of the core, and flush
CoreOps == GuardedOps \cup {"emit_batch_logs"}

FacadeCallsNeverRaise ==
  \A t \in Threads :
    /\ mode = "facade" /\ client_initialized /\ fr[t].pc = "idle"
    /\ ret[t].op \in GuardedOps \ {"flush"}
    /\ ret[t].op \in {"end_span", "add_span_event"} => ret[t].sid \in issued
    => ret[t].exc = "none"

AllIdle == \A t \in Threads : fr[t].pc = "idle"

\* no end_span has taken a span from the registry, none is about to
NoEndSpan == ended = {} /\ \A t \in Threads : fr[t].op # "end_span"

\* C11: start_span calls that race on a Ready session with traces enabled
\* return ids that are pairwise distinct and not empty, and once all calls
\* have returned, before any end_span, the registry holds exactly the ids
\* returned, each mapped to the span created for its call.
ConcurrentStartSpan ==
  /\ \A t \in Threads :
       Returned(t, "start_span") /\ ret[t].span # 0 =>
         /\ ret[t].val # EmptyId
         /\ ret[t].val \in issued
         /\ NoEndSpan => /\ ret[t].val \in DOMAIN active_spans
                          /\ active_spans[ret[t].val] = ret[t].span
  /\ \A t, u \in Threads :
       t # u /\ Returned(t, "start_span") /\ Returned(u, "start_span")
             /\ ret[t].span # 0 /\ ret[u].span # 0 =>
         ret[t].val # ret[u].val
  /\ AllIdle /\ NoEndSpan =>
       /\ DOMAIN active_spans = issued \ {EmptyId}
       /\ {active_spans[i] : i \in DOMAIN active_spans} = DOMAIN spans
       /\ Cardinality(DOMAIN active_spans) = Len(spans)

\* both callers started a span on the Ready session and both have returned
ConcurrentStartSpanWitness ==
  /\ initialized /\ AllIdle /\ NoEndSpan
  /\ \A t \in Threads : Returned(t, "start_span") /\ ret[t].span # 0
  /\ Cardinality(DOMAIN active_spans) = Cardinality(Threads)

\* C12: of the end_span calls made with one issued span id, in sequence or
\* racing, exactly one sets the status and ends the span; every other call finds
\* nothing, does nothing and does not raise.
EndSpanOnce ==
  /\ \A h \in DOMAIN spans : spans[h].ended <= 1
  /\ \A t \in Threads :
       Returned(t, "end_span") /\ ret[t].sid # EmptyId =>
         /\ ret[t].exc = "none"
         /\ ret[t].sid \in issued =>
              /\ ret[t].sid \notin DOMAIN active_spans
              /\ AllIdle => ret[t].sid \in ended
         /\ ret[t].ran => ret[t].span # 0 /\ spans[ret[t].span].ended = 1
  /\ \A t, u \in Threads :
       t # u /\ Returned(t, "end_span") /\ Returned(u, "end_span")
             /\ ret[t].sid = ret[u].sid /\ ret[t].sid \in issued \ {EmptyId} =>
         ~(ret[t].ran /\ ret[u].ran)

\* both callers ended the same span: one closed it, the other found nothing
EndSpanOnceWitness ==
  \E t, u \in Threads :
    /\ t # u /\ Returned(t, "end_span") /\ Returned(u, "end_span")
    /\ ret[t].sid = ret[u].sid /\ ret[t].sid \in issued \ {EmptyId}
    /\ ret[t].ran /\ ~ret[u].ran /\ ret[u].exc = "none"
    /\ spans[ret[t].span].ended = 1

\* C13: end_span and add_span_event on a non-empty span id that is not in
\* active_spans (never issued, already ended, or cleared by shutdown) do not
\* raise and leave the registry, every span and the three sent counters as
\* they were.
MissingSpanInert ==
  [][\A t \in Threads :
       /\ Moves(t)
       /\ fr[t].op \in {"end_span", "add_span_event"}
       /\ fr[t].pc \in {"es_pop", "ae_get"} => fr[t].sid \notin DOMAIN active_spans
       /\ fr[t].pc \in {"es_end", "ae_add"} => fr[t].span = 0
       => /\ active_spans' = active_spans
          /\ spans' = spans
          /\ sentVars' = sentVars
          /\ ~Returns(t) => fr'[t].span = 0 /\ fr'[t].exc = "none"
          /\ Returns(t) => ret'[t].exc = "none" /\ ~ret'[t].ran]_vars

\* after a shutdown cleared the registry, end_span on the id of the span that
\* was active has returned: the span is still not ended, one span is counted
MissingSpanInertWitness ==
  \E t \in Threads :
    /\ Returned(t, "end_span")
    /\ ret[t].sid \in issued \ ({EmptyId} \cup ended)
    /\ ret[t].exc = "none" /\ ~ret[t].ran
    /\ ~initialized /\ closes = 1
    /\ spans_sent = 1
    /\ \A h \in DOMAIN spans : spans[h].ended = 0

\* C14: within a session the meter creates at most one instrument per metric
\* kind and name, also when two threads make the first call for the same kind
\* and name at once, and every record call records on the instrument cached
\* under its kind and name.
OneInstrumentPerName ==
  /\ \A i, j \in DOMAIN instruments :
       /\ instruments[i].meter = instruments[j].meter
       /\ instruments[i].kind = instruments[j].kind
       /\ instruments[i].name = instruments[j].name
       => i = j
  /\ \A t \in Threads :
       fr[t].pc = "rec_add" =>
         /\ fr[t].name \in DOMAIN Cache(fr[t].kind)
         /\ fr[t].inst = Cache(fr[t].kind)[fr[t].name]
         /\ instruments[fr[t].inst].kind = fr[t].kind
         /\ instruments[fr[t].inst].name = fr[t].name
         /\ instruments[fr[t].inst].meter = meter

\* both threads are in their call for the same kind and name, neither has
\* recorded yet, and they hold the same, only instrument
OneInstrumentPerNameWitness ==
  \E t, u \in Threads :
    /\ t # u
    /\ fr[t].pc = "rec_add" /\ fr[u].pc = "rec_add"
    /\ fr[t].kind = fr[u].kind /\ fr[t].name = fr[u].name
    /\ fr[t].inst = fr[u].inst
    /\ Len(instruments) = 1 /\ instruments[1].recs = 0

\* C15: one record_metric call on a Ready session with a metric pipeline
\* raises metrics_sent by exactly 2 and records once on the gauge cached under
\* the name, creating it if the name is new; no other instrument is touched.
RecordMetricAddsTwo ==
  [][\A t \in Threads :
       fr[t].pc = "rm_write" /\ Moves(t) =>
         LET before == fr[t].snap[2]
             g == gauges'[fr[t].name]
         IN /\ metrics_sent' = fr[t].snap[1] + 2
            /\ Returns(t) /\ ret'[t].exc = "none"
            /\ fr[t].name \in DOMAIN gauges'
            /\ instruments'[g].kind = "gauge" /\ instruments'[g].name = fr[t].name
            /\ instruments'[g].recs = (IF g \in DOMAIN before THEN before[g].recs ELSE 0) + 1
            /\ \A h \in DOMAIN instruments' \ {g} :
                 h \in DOMAIN before /\ instruments'[h] = before[h]]_vars

\* a record_metric on a name already recorded as a gauge has returned: three
\* values sent, two recorded on the one gauge
RecordMetricAddsTwoWitness ==
  \E t \in Threads :
    /\ Returned(t, "record_metric") /\ ret[t].exc = "none"
    /\ metrics_sent = 3
    /\ Len(instruments) = 1
    /\ instruments[1].kind = "gauge" /\ instruments[1].recs = 2

\* the script has been run to its end
ScriptDone == pos = Len(script) /\ AllIdle

\* C16: in a sequential run every completed call has added exactly its share
\* to the counters: 1 to metrics_sent per counter, gauge or histogram value, 1
\* to spans_sent per span started, 1 to logs_sent per log, nothing for
\* end_span, add_span_event, flush and shutdown; and initialize,
\* increment_counter MaxRepeat times, start_span, end_span of the id, shutdown
\* on a session with all signals ends with metrics_sent = MaxRepeat,
\* spans_sent = 1 and initialized false.
CountersFollowCalls ==
  /\ AllIdle => sentVars = due
  /\ /\ script = Totals /\ ScriptDone
     /\ config.enable_traces /\ config.enable_metrics /\ closes = 1
     => /\ metrics_sent = MaxRepeat
        /\ spans_sent = 1
        /\ logs_sent = 0
        /\ ~initialized

\* the run of initialize, the counter calls, start_span, end_span and shutdown
\* is over, its span was ended and the session had both pipelines
CountersFollowCallsWitness ==
  /\ script = Totals /\ ScriptDone
  /\ config.enable_traces /\ config.enable_metrics /\ closes = 1
  /\ ended # {}
  /\ metrics_sent = MaxRepeat /\ spans_sent = 1 /\ ~initialized

ScopeEndsSpan ==
  \A t \in Threads :
    Returned(t, "end_span") /\ ret[t].cm = "exit" /\ ret[t].sid # EmptyId =>
      /\ spans[ret[t].sid].ended = 1
      /\ ret[t].err => spans[ret[t].sid].status = "ERROR" /\ ret[t].prop = "BodyError"
      /\ ~ret[t].err => ret[t].prop = "none"

\* the rules a configuration has to meet, each with its description
Rules ==
  {"Endpoint is required", "Service name is required", "Timeout must be positive",
   "Max retries must be non-negative", "Batch max size must be positive",
   "Rate limit must be positive"}

Violated(rule, c) ==
  CASE rule = "Endpoint is required" -> c.endpoint = ""
    [] rule = "Service name is required" -> c.service_name = ""
    [] rule = "Timeout must be positive" -> c.timeout <= 0
    [] rule = "Max retries must be non-negative" -> c.max_retries < 0
    [] rule = "Batch max size must be positive" -> c.batch_max_size <= 0
    [] OTHER -> c.rate_limit <= 0

\* the pieces of a message at the odd places: what "; " separates
Parts(msg) == {msg[i] : i \in {j \in DOMAIN msg : j % 2 = 1}}

\* C19: the construction of a TelemetryConfig raises nothing exactly when no
\* rule is violated; otherwise the message of its one ConfigError is made of the
\* descriptions of the violated rules, each once and no other, separated by
\* "; ".
ConfigErrorCollects ==
  tc_args.made =>
    /\ tc_error = NoError <=> \A r \in Rules : ~Violated(r, tc_args)
    /\ tc.made <=> tc_error = NoError
    /\ Parts(tc_error) = {r \in Rules : Violated(r, tc_args)}
    /\ tc_error # NoError =>
         Len(tc_error) = 2 * Cardinality({r \in Rules : Violated(r, tc_args)}) - 1
    /\ \A i \in DOMAIN tc_error : i % 2 = 0 => tc_error[i] = "; "

\* an empty endpoint and an empty service name with the other fields valid:
\* one error with both descriptions
ConfigErrorCollectsWitness ==
  /\ tc_args.made
  /\ tc_args.endpoint = "" /\ tc_args.service_name = ""
  /\ tc_error = <<"Endpoint is required", "; ", "Service name is required">>

\* C20: a TelemetryConfig object the application holds is valid, after its
\* construction and after any fluent setter calls.
ConfigAlwaysValid ==
  tc.made => \A r \in Rules : ~Violated(r, tc)

\* the text begins with the four characters of the prefix
Prefixed(text, prefix) == \A i \in 1..4 : i \in DOMAIN text /\ text[i] = prefix[i]

\* C22: Credentials.create succeeds exactly when key_id is non-empty and begins
\* with tfk_ and key_secret is non-empty and begins with tfs_; otherwise it
\* raises CredentialsError and there is no Credentials object.
CreateIffWellFormed ==
  cred_args.made =>
    LET good == /\ cred_args.key_id # <<>> /\ Prefixed(cred_args.key_id, KEY_ID_PREFIX)
                /\ cred_args.key_secret # <<>>
                /\ Prefixed(cred_args.key_secret, KEY_SECRET_PREFIX)
    IN /\ good <=> cred.made
       /\ good => cred = cred_args /\ raised = NoRaise
       /\ ~good => cred = NoObject /\ raised.type = "CredentialsError"

\* a key id with the prefix of a secret and a well-formed secret was refused
CreateIffWellFormedWitness ==
  /\ cred_args.made /\ ~cred.made
  /\ Prefixed(cred_args.key_id, KEY_SECRET_PREFIX)
  /\ Prefixed(cred_args.key_secret, KEY_SECRET_PREFIX)
  /\ raised.type = "CredentialsError"

\* C21: build either returns a client whose config meets every rule or raises
\* BuilderError; no credential or config violation set through the builder
\* leaves build as another exception type.
BuildRaisesOnlyBuilderError ==
  bld.built =>
    /\ raised.type \in {"none", "BuilderError"}
    /\ raised.type = "none" => tc.made /\ \A r \in Rules : ~Violated(r, tc)

\* the places in regs at which a handler was registered for class ty
RegsFor(ty) == {i \in DOMAIN regs : regs[i][1] = ty}

\* the largest member of a non-empty set of numbers
Latest(S) == CHOOSE i \in S : \A j \in S : j <= i

\* C23: after any register calls, dispatch of a message calls exactly once the
\* handler registered last for the message's own class and returns its result;
\* when no handler is registered for that class, it calls no handler and raises
\* an error that names the class.
BusLastRegistrationWins ==
  dispatched.made =>
    LET ty == dispatched.type
    IN IF RegsFor(ty) = {}
         THEN /\ dispatched.invoked = <<>>
              /\ dispatched.exc # "none"
              /\ \E i \in DOMAIN dispatched.msg : dispatched.msg[i] = ty
         ELSE LET h == regs[Latest(RegsFor(ty))][2]
              IN /\ dispatched.invoked = <<h>>
                 /\ dispatched.result = HandlerResult(h, ty)
                 /\ dispatched.exc = "none"

\* two handlers were registered for one class, one after the other, and a
\* message of that class went to the second
BusLastRegistrationWinsWitness ==
  /\ dispatched.made /\ dispatched.exc = "none"
  /\ \E i, j \in RegsFor(dispatched.type) :
       i < j /\ regs[i][2] # regs[j][2] /\ dispatched.invoked = <<regs[j][2]>>

\* C24: whenever the session is not initialized and no call is in progress,
\* the registry of active spans is empty, whatever the interleaving of
\* start_span, end_span, initialize and shutdown calls.
RegistryEmptyWhenUninitialized ==
  ~initialized /\ AllIdle => DOMAIN active_spans = {}

\* the pipelines whose shutdown has been invoked
ShutDown(providers) == {p \in DOMAIN providers : providers[p].shut >= 1}

\* C25: once the shutdown of a pipeline has been invoked, no step starts a
\* span on its tracer, creates or records on an instrument of its meter, or
\* requests a force-flush of it, whatever the sequence of operations
\* (a later initialize included).
NoCallAfterPipelineShutdown ==
  [][/\ \A p \in ShutDown(tproviders) :
          /\ tproviders'[p].flush = tproviders[p].flush
          /\ \A s \in DOMAIN spans' : spans'[s].tracer = p => s \in DOMAIN spans
     /\ \A p \in ShutDown(mproviders) :
          /\ mproviders'[p].flush = mproviders[p].flush
          /\ \A i \in DOMAIN instruments' :
               instruments'[i].meter = p
                 => i \in DOMAIN instruments /\ instruments'[i].recs = instruments[i].recs]_vars

\* C26: under any interleaving of concurrent calls no counter update is lost:
\* once every call has returned, spans_sent equals the number of span ids
\* issued by start_span.
NoSpanCountLost ==
  AllIdle => spans_sent = Cardinality(issued \ {EmptyId})

\* C27: when shutdown of a Ready session is past its pipeline calls, about to
\* return or raise, the shutdown of every pipeline the session holds has been
\* invoked, whatever the outcome of the pipeline's flush.
ShutdownClosesEveryPipeline ==
  \A t \in Threads :
    fr[t].pc \in {"sd_clear", "sd_done"}
      => /\ tracer_provider # 0 => tproviders[tracer_provider].shut >= 1
         /\ meter_provider # 0 => mproviders[meter_provider].shut >= 1

\* C28: after shutdown of a Ready session has completed, the session is as
\* constructed apart from the running counters: not initialized, no start
\* time, an empty span registry, empty counter, gauge and histogram caches,
\* and no tracer, meter or provider retained.
ShutdownRestoresInitialState ==
  \A t \in Threads :
    Returned(t, "shutdown") /\ closes >= 1
      => /\ ~initialized
         /\ start_time = 0
         /\ DOMAIN active_spans = {}
         /\ DOMAIN counters = {} /\ DOMAIN gauges = {} /\ DOMAIN histograms = {}
         /\ tracer = 0 /\ meter = 0
         /\ tracer_provider = 0 /\ meter_provider = 0
         /\ span_processor = 0 /\ metric_reader = 0

\* thread t is inside an external pipeline call of initialize, flush or
\* shutdown: the set-up, force_flush or shutdown of a provider
AtPipelineCall(t) ==
  fr[t].pc \in {"init_tracer", "init_meter", "sd_flush_trace", "sd_shutdown_trace",
                "sd_meter", "fl_trace", "fl_meter"}

RecordingOps ==
  {"record_metric", "record_counter", "record_gauge", "record_histogram",
   "emit_log", "emit_batch_logs", "start_span", "end_span", "add_span_event"}

\* C29: while a thread is inside a pipeline call of initialize, flush or
\* shutdown, it holds neither the span-registry lock nor the instrument lock,
\* and every recording or span operation another thread has in progress can
\* take its next step: it never waits for a lock held across the call.
RecordingNeverWaitsOnPipeline ==
  \A t, u \in Threads :
    t # u /\ AtPipelineCall(t)
      => /\ Held(t) \subseteq {"client_lock", "init_lock"}
         /\ fr[u].pc # "idle" /\ fr[u].op \in RecordingOps
              => ENABLED (Metrics(u) \/ Logs(u) \/ Spans(u) \/ c_ensure(u))

\* a shutdown is inside the force_flush of the tracer provider, holding the
\* init lock, while the other thread is about to enter the span registry
RecordingNeverWaitsOnPipelineWitness ==
  \E t, u \in Threads :
    /\ t # u
    /\ fr[t].pc = "sd_flush_trace" /\ init_lock.owner = t
    /\ fr[u].pc \in {"ss_insert", "es_pop", "ae_get"}

\* the one order in which the locks may be nested
LockOrder == <<"client_lock", "init_lock", "spans_lock", "instruments_lock">>

Before(a, b) ==
  \E i, j \in DOMAIN LockOrder : i < j /\ LockOrder[i] = a /\ LockOrder[j] = b

\* C30: the client lock, the init lock, the span-registry lock and the
\* instrument lock are only ever nested in one order, and every call in
\* progress, waiting for a lock or not, eventually returns when the external
\* pipeline calls return.
EveryCallReturns ==
  /\ [](\A p \in nesting : Before(p[1], p[2]))
  /\ \A t \in Threads : (fr[t].pc # "idle") ~> (fr[t].pc = "idle")

\* the locks have been nested client lock, init lock, span-registry lock, and
\* an initialize or shutdown waits for the client lock another thread holds
EveryCallReturnsWitness ==
  /\ {<<"client_lock", "init_lock">>, <<"init_lock", "spans_lock">>} \subseteq nesting
  /\ \E t, u \in Threads :
       /\ t # u
       /\ client_lock.owner = t
       /\ fr[u].pc \in {"c_init_check", "c_sd_check"}

====
